---------------------------- MODULE Spec2Model ----------------------------
(***************************************************************************)
(* Model of the Performa voice-command code.                               *)
(*                                                                         *)
(*   - the Command Dispatcher, processCommand (src/whisper.js 96-187);     *)
(*   - the Speech Source Adapter, class WhisperSpeechRecognition           *)
(*     (src/unnamed/part_000 57-261);                                      *)
(*   - the recorder, startWhisperRecognition and stopWhisperRecognition    *)
(*     (src/whisper.js 9-94).                                              *)
(*                                                                         *)
(* A JavaScript string is modelled as a sequence of one-character strings, *)
(* so that includes, split, trim and toLowerCase are computed character by *)
(* character, as the engine computes them.                                 *)
(***************************************************************************)
EXTENDS Naturals, Sequences, FiniteSets

(***************************************************************************)
(* Bounds of the model.                                                    *)
(***************************************************************************)
\* Longest transcript, in characters.
MaxLen == 3
\* Number of start() calls issued on one recognizer instance.
MaxStarts == 2
\* Number of startWhisperRecognition() calls issued.
MaxRecorderStarts == 3

VARIABLES
  \* ---- Command Dispatcher (src/whisper.js) ----
  commands,            \* the table returned by getVoiceCommands()
  transcript,          \* the argument of processCommand
  addBtn,              \* document.getElementById('addEntry') is an element
  entryType,           \* document.getElementById('type').value
  complexTasks,        \* the global list complexTasks
  automationSequences, \* the global list automationSequences
  cmdPc,               \* "ready": processCommand not yet called, "done": returned
  calls,               \* the application actions processCommand invoked, in order
  spoken,              \* the speakFeedback calls processCommand made, in order
  \* ---- Speech Source Adapter (src/unnamed/part_000) ----
  nativePresent,       \* NativeRecognition is not null
  offlinePresent,      \* window.enhancedOfflineVoice or window.offlineVoice is set
  this,                \* the fields of the WhisperSpeechRecognition instance
  world,               \* what the instance has acquired from the platform
  starts,              \* the start() calls suspended at an await
  issued,              \* the number of start() calls made so far
  last,                \* what the latest step was and what it fired
  \* ---- Recorder (src/whisper.js) ----
  recorder,            \* the globals whisper, isRecording, mediaRecorder
  recStarts,           \* the startWhisperRecognition() calls suspended at an await
  recIssued            \* the number of startWhisperRecognition() calls made so far

cmdVars == <<commands, transcript, addBtn, entryType, complexTasks,
             automationSequences, cmdPc, calls, spoken>>

adapterVars == <<nativePresent, offlinePresent, this, world, starts, issued,
                 last>>

recVars == <<recorder, recStarts, recIssued>>

(***************************************************************************)
(* JavaScript strings.                                                     *)
(***************************************************************************)
\* String.prototype.toLowerCase on the characters the model uses.
LowerChar(c) ==
  CASE c = "X" -> "x"
    [] c = "Y" -> "y"
    [] c = "Z" -> "z"
    [] OTHER   -> c

ToLowerCase(s) == [i \in 1..Len(s) |-> LowerChar(s[i])]

\* The least index i >= from at which p occurs in s, or 0 when there is none.
RECURSIVE IndexFrom(_, _, _)
IndexFrom(s, p, from) ==
  IF from + Len(p) - 1 > Len(s) THEN 0
  ELSE IF \A k \in 1..Len(p) : s[from + k - 1] = p[k] THEN from
  ELSE IndexFrom(s, p, from + 1)

\* String.prototype.indexOf, shifted to TLA+'s indices from 1: the index of
\* the first occurrence of p in s, or 0 when p does not occur.
IndexOf(s, p) == IndexFrom(s, p, 1)

\* String.prototype.includes.
Includes(s, p) == IndexOf(s, p) # 0

\* The part of s from index i to its end.
Tail_(s, i) == SubSeq(s, i, Len(s))

\* String.prototype.split with a separator: the pieces of s between the
\* successive, non-overlapping occurrences of sep, scanned from the left.  An
\* empty separator splits s into its characters.
RECURSIVE Split(_, _)
Split(s, sep) ==
  IF sep = <<>>
  THEN [i \in 1..Len(s) |-> <<s[i]>>]
  ELSE LET i == IndexOf(s, sep)
       IN  IF i = 0
           THEN <<s>>
           ELSE <<SubSeq(s, 1, i - 1)>> \o Split(Tail_(s, i + Len(sep)), sep)

IsSpace(c) == c = " "

\* String.prototype.trim.
RECURSIVE Trim(_)
Trim(s) ==
  IF s = <<>> THEN s
  ELSE IF IsSpace(s[1]) THEN Trim(Tail(s))
  ELSE IF IsSpace(s[Len(s)]) THEN Trim(SubSeq(s, 1, Len(s) - 1))
  ELSE s


(***************************************************************************)
(* Command Dispatcher: configuration and inputs.                           *)
(***************************************************************************)
\* The built-in commands in the order of processCommand's if / else-if chain.
BuiltinOrder ==
  <<"startTimer", "stopTimer", "resetTimer", "startJog", "stopJog",
    "logExercise", "startTimerFor", "addEntry", "setActualReps",
    "showProgress", "showArchive", "openSettings", "goHome">>

Builtins == {BuiltinOrder[i] : i \in 1..Len(BuiltinOrder)}

\* getVoiceCommands() is application code outside this repository: the table
\* of trigger phrases is an input.  Two tables are explored: one whose
\* phrases are pairwise free of one another, and one in which the phrase of
\* startTimerFor extends the phrase of startTimer (as "start timer for"
\* extends "start timer") and the phrase of logExercise is one character.
DistinctCommands ==
  [startTimer    |-> <<"s", "t">>, stopTimer     |-> <<"s", "p">>,
   resetTimer    |-> <<"r", "t">>, startJog      |-> <<"s", "j">>,
   stopJog       |-> <<"p", "j">>, logExercise   |-> <<"l", "e">>,
   startTimerFor |-> <<"t", "f">>, addEntry      |-> <<"a", "e">>,
   setActualReps |-> <<"a", "r">>, showProgress  |-> <<"p", "g">>,
   showArchive   |-> <<"a", "v">>, openSettings  |-> <<"o", "s">>,
   goHome        |-> <<"g", "h">>]

VariedCommands ==
  [DistinctCommands EXCEPT !.startTimerFor = <<"s", "t", "f">>,
                           !.logExercise = <<"l">>]

CommandTables == {DistinctCommands, VariedCommands}

\* Characters a transcript carries besides trigger phrases: white space, two
\* lower-case letters and an upper-case one.
Fillers == {<<" ">>, <<"x">>, <<"y">>, <<"Z">>}

Pieces(cmds) == {cmds[b] : b \in Builtins} \cup Fillers

\* Every concatenation of pieces that is at most n characters long.
RECURSIVE TranscriptsUpTo(_, _)
TranscriptsUpTo(P, n) ==
  IF n = 0 THEN {<<>>}
  ELSE LET prev == TranscriptsUpTo(P, n - 1)
       IN  prev \cup {c \in {t \o p : t \in prev, p \in P} : Len(c) <= n}

Transcripts(cmds) == TranscriptsUpTo(Pieces(cmds), MaxLen)

\* The values of the entry-type selector, document.getElementById('type').
EntryTypes == {"reps", "semi", "time"}

\* Entries of complexTasks.  hasCommands: the entry has a commands array;
\* command = <<>>: the entry has no command (or an empty one, which is as
\* falsy).
TaskMulti ==
  [hasCommands |-> TRUE, commands |-> << <<"Z">>, <<"X">> >>,
   command |-> <<>>, primaryCommand |-> <<"q">>]
TaskSingle ==
  [hasCommands |-> FALSE, commands |-> <<>>,
   command |-> <<"Y">>, primaryCommand |-> <<"q">>]
TaskNamed ==
  [hasCommands |-> FALSE, commands |-> <<>>,
   command |-> <<>>, primaryCommand |-> <<"x">>]
\* An entry with an empty commands array beside its command, and one whose
\* primaryCommand is written in upper case.
TaskEmptyList ==
  [hasCommands |-> TRUE, commands |-> <<>>,
   command |-> <<"x">>, primaryCommand |-> <<"q">>]
TaskUpperNamed ==
  [hasCommands |-> FALSE, commands |-> <<>>,
   command |-> <<>>, primaryCommand |-> <<"Y">>]

TaskLists ==
  {<<>>, <<TaskMulti>>, <<TaskSingle, TaskNamed>>,
   <<TaskEmptyList, TaskUpperNamed>>}

\* Entries of automationSequences, of the same shape with name for
\* primaryCommand.
AutoMulti ==
  [hasCommands |-> TRUE, commands |-> << <<"x">>, <<"z">> >>,
   command |-> <<>>, name |-> <<"q">>]
AutoNamed ==
  [hasCommands |-> FALSE, commands |-> <<>>,
   command |-> <<>>, name |-> <<"Y">>]

AutomationLists == {<<>>, <<AutoMulti, AutoNamed>>}

(***************************************************************************)
(* Command Dispatcher: processCommand.                                     *)
(***************************************************************************)
NoArg == <<>>

\* One invocation of an application action: its function, its argument (for
\* the actions that take text) and, for executeComplexTask and
\* executeAutomationSequence, the index of the entry passed (0 otherwise).
Call(fn, arg, idx) == [fn |-> fn, arg |-> arg, idx |-> idx]

\* One speakFeedback call: the text, as the name of the commands field (or
\* the literal) it comes from, and what the template appends to it.
Say(text, suffix) == [text |-> text, suffix |-> suffix]

NotRecognized ==
  Say("Command not recognized. Please try again or check your voice settings.",
      NoArg)

Outcome(c, s) == [calls |-> c, spoken |-> s]

\* transcript.split(phrase)[1].trim(): the piece between the first and the
\* second occurrence of phrase.  It is evaluated only after
\* transcript.includes(phrase) held, so the split has a second piece
\* whenever phrase is not empty.
SplitArg(t, phrase) == Trim(Split(t, phrase)[2])

\* Array.prototype.find(cmd => transcript.includes(cmd.toLowerCase())), as
\* the truthiness of its result: the first phrase that is included is
\* returned, and an empty phrase is a falsy value.
FindTruthy(phrases, t) ==
  LET hits == {i \in 1..Len(phrases) : Includes(t, ToLowerCase(phrases[i]))}
  IN  /\ hits # {}
      /\ phrases[CHOOSE i \in hits : \A j \in hits : i <= j] # <<>>

\* matchingCommand of the complexTasks loop.
TaskMatches(t, task) ==
  IF task.hasCommands
  THEN FindTruthy(task.commands, t)
  ELSE Includes(t, IF task.command # <<>> THEN ToLowerCase(task.command)
                                          ELSE task.primaryCommand)

\* matchingCommand of the automationSequences loop.
AutomationMatches(t, automation) ==
  IF automation.hasCommands
  THEN FindTruthy(automation.commands, t)
  ELSE Includes(t, IF automation.command # <<>>
                   THEN ToLowerCase(automation.command)
                   ELSE ToLowerCase(automation.name))

\* The index of the entry at which the for loop breaks, 0 when it runs to
\* the end of the list.
FirstTask(t, tasks) ==
  LET hits == {i \in 1..Len(tasks) : TaskMatches(t, tasks[i])}
  IN  IF hits = {} THEN 0 ELSE CHOOSE i \in hits : \A j \in hits : i <= j

FirstAutomation(t, autos) ==
  LET hits == {i \in 1..Len(autos) : AutomationMatches(t, autos[i])}
  IN  IF hits = {} THEN 0 ELSE CHOOSE i \in hits : \A j \in hits : i <= j

\* CustomCommands with the automation loop run although a complex task was
\* executed (the guard on commandFound lost).
CustomCommandsBothLoops(t, tasks, autos) ==
  LET ti == FirstTask(t, tasks)
      ai == FirstAutomation(t, autos)
      tc == IF ti # 0 THEN <<Call("executeComplexTask", NoArg, ti)>> ELSE <<>>
      ac == IF ai # 0 THEN <<Call("executeAutomationSequence", NoArg, ai)>>
                      ELSE <<>>
  IN  Outcome(tc \o ac, IF ti = 0 /\ ai = 0 THEN <<NotRecognized>> ELSE <<>>)

\* CustomCommands with the two lists scanned in the other order.
CustomCommandsAutomationFirst(t, tasks, autos) ==
  LET ti == FirstTask(t, tasks)
      ai == FirstAutomation(t, autos)
  IN  IF ai # 0
      THEN Outcome(<<Call("executeAutomationSequence", NoArg, ai)>>, <<>>)
      ELSE IF ti # 0
      THEN Outcome(<<Call("executeComplexTask", NoArg, ti)>>, <<>>)
      ELSE Outcome(<<>>, <<NotRecognized>>)

\* CustomCommands with commandFound not set by the automation loop.
CustomCommandsFoundNotSet(t, tasks, autos) ==
  LET ti == FirstTask(t, tasks)
      ai == FirstAutomation(t, autos)
  IN  IF ti # 0 THEN Outcome(<<Call("executeComplexTask", NoArg, ti)>>, <<>>)
      ELSE IF ai # 0
      THEN Outcome(<<Call("executeAutomationSequence", NoArg, ai)>>,
                   <<NotRecognized>>)
      ELSE Outcome(<<>>, <<NotRecognized>>)

\* The else branch of the chain: complex tasks, then automation sequences,
\* then the not-recognized feedback.
CustomCommands(t, tasks, autos) ==
  LET ti == FirstTask(t, tasks)
      ai == FirstAutomation(t, autos)
  IN  IF ti # 0 THEN Outcome(<<Call("executeComplexTask", NoArg, ti)>>, <<>>)
      ELSE IF ai # 0
      THEN Outcome(<<Call("executeAutomationSequence", NoArg, ai)>>, <<>>)
      ELSE Outcome(<<>>, <<NotRecognized>>)

\* The addEntry branch: the button is clicked when it exists.
AddEntryBranch(btn) ==
  IF btn
  THEN Outcome(<<Call("addBtn.click", NoArg, 0)>>,
               <<Say("addEntryFeedback", NoArg)>>)
  ELSE Outcome(<<>>, <<>>)

\* The setActualReps branch: the field is chosen by the entry type, and is
\* left undefined for a type other than 'reps' and 'semi'.
SetActualRepsBranch(repsValue, type) ==
  IF type = "reps"
  THEN Outcome(<<Call("actualValue.value=", repsValue, 0)>>,
               <<Say("setActualRepsFeedback", repsValue)>>)
  ELSE IF type = "semi"
  THEN Outcome(<<Call("reps.value=", repsValue, 0)>>,
               <<Say("setActualRepsFeedback", repsValue)>>)
  ELSE Outcome(<<>>, <<>>)

Simple(fn, text) == Outcome(<<Call(fn, NoArg, 0)>>, <<Say(text, NoArg)>>)

\* processCommand with the test of commands.startTimerFor moved in front of
\* the test of commands.startTimer.
ProcessCommandTimerForFirst(cmds, raw, btn, type, tasks, autos) ==
  LET t == ToLowerCase(raw)
  IN  IF Includes(t, cmds.startTimerFor)
      THEN Outcome(<<Call("handleTimerForDuration",
                          SplitArg(t, cmds.startTimerFor), 0)>>, <<>>)
      ELSE IF Includes(t, cmds.startTimer)
      THEN Simple("startTimer", "startTimerFeedback")
      ELSE IF Includes(t, cmds.stopTimer)
      THEN Simple("stopTimer", "stopTimerFeedback")
      ELSE IF Includes(t, cmds.resetTimer)
      THEN Simple("resetTimer", "resetTimerFeedback")
      ELSE IF Includes(t, cmds.startJog)
      THEN Simple("startJogging", "startJogFeedback")
      ELSE IF Includes(t, cmds.stopJog)
      THEN Simple("stopJogging", "stopJogFeedback")
      ELSE IF Includes(t, cmds.logExercise)
      THEN Outcome(<<Call("handleSmartExerciseLogging",
                          SplitArg(t, cmds.logExercise), 0)>>, <<>>)
      ELSE IF Includes(t, cmds.addEntry)
      THEN AddEntryBranch(btn)
      ELSE IF Includes(t, cmds.setActualReps)
      THEN SetActualRepsBranch(SplitArg(t, cmds.setActualReps), type)
      ELSE IF Includes(t, cmds.showProgress)
      THEN Simple("showProgressView", "navigationFeedback progress view")
      ELSE IF Includes(t, cmds.showArchive)
      THEN Simple("showArchiveView", "navigationFeedback archive view")
      ELSE IF Includes(t, cmds.openSettings)
      THEN Simple("showSettingsView", "navigationFeedback settings")
      ELSE IF Includes(t, cmds.goHome)
      THEN Simple("hideAllViews", "navigationFeedback home")
      ELSE CustomCommands(t, tasks, autos)

\* processCommand(transcript): what it invokes and what it speaks.
ProcessCommand(cmds, raw, btn, type, tasks, autos) ==
  LET t == ToLowerCase(raw)
  IN  IF Includes(t, cmds.startTimer)
      THEN Simple("startTimer", "startTimerFeedback")
      ELSE IF Includes(t, cmds.stopTimer)
      THEN Simple("stopTimer", "stopTimerFeedback")
      ELSE IF Includes(t, cmds.resetTimer)
      THEN Simple("resetTimer", "resetTimerFeedback")
      ELSE IF Includes(t, cmds.startJog)
      THEN Simple("startJogging", "startJogFeedback")
      ELSE IF Includes(t, cmds.stopJog)
      THEN Simple("stopJogging", "stopJogFeedback")
      ELSE IF Includes(t, cmds.logExercise)
      THEN Outcome(<<Call("handleSmartExerciseLogging",
                          SplitArg(t, cmds.logExercise), 0)>>, <<>>)
      ELSE IF Includes(t, cmds.startTimerFor)
      THEN Outcome(<<Call("handleTimerForDuration",
                          SplitArg(t, cmds.startTimerFor), 0)>>, <<>>)
      ELSE IF Includes(t, cmds.addEntry)
      THEN AddEntryBranch(btn)
      ELSE IF Includes(t, cmds.setActualReps)
      THEN SetActualRepsBranch(SplitArg(t, cmds.setActualReps), type)
      ELSE IF Includes(t, cmds.showProgress)
      THEN Simple("showProgressView", "navigationFeedback progress view")
      ELSE IF Includes(t, cmds.showArchive)
      THEN Simple("showArchiveView", "navigationFeedback archive view")
      ELSE IF Includes(t, cmds.openSettings)
      THEN Simple("showSettingsView", "navigationFeedback settings")
      ELSE IF Includes(t, cmds.goHome)
      THEN Simple("hideAllViews", "navigationFeedback home")
      ELSE CustomCommands(t, tasks, autos)

(***************************************************************************)
(* Speech Source Adapter: class WhisperSpeechRecognition.                  *)
(*                                                                         *)
(* start() is an async function: it is suspended at await                  *)
(* this._initWhisper() and at await getUserMedia(...), and any other call  *)
(* on the instance may run while it is suspended.  Each run of code        *)
(* between two awaits is one step.  The application's callbacks (onstart,  *)
(* onend, onerror) are installed, as in the usage the file documents.      *)
(***************************************************************************)
\* The fields after the constructor.
NewInstance ==
  [listening     |-> FALSE,   \* _listening
   audioCtx      |-> FALSE,   \* _audioCtx is not null
   mediaStream   |-> FALSE,   \* _mediaStream is not null
   processor     |-> FALSE,   \* _processor is not null
   moduleLoaded  |-> FALSE,   \* _moduleLoaded
   usingFallback |-> FALSE,   \* _usingFallback
   fallbackShim  |-> "null"]  \* _fallbackShim: "null", "native", "offline"

\* The platform resources the instance has acquired and not released.
\*   shimStarted: the recognizer _fallbackShim refers to is started;
\*   orphanShims: started recognizers the instance no longer refers to;
\*   leakedCtx, leakedStream, leakedProc: audio contexts not closed, streams
\*   whose tracks are not stopped and processors not disconnected that no
\*   field refers to any more;
\*   endDue: a native recognizer that stop() stopped ("stop") or that
\*   reported an error ("error") has yet to fire its end event;
\*   afterStop: stop() or abort() has returned and start() was not called
\*   since;
\*   stopOnend: the onend notifications the latest stop() has caused.
NewWorld ==
  [shimStarted  |-> FALSE,
   orphanShims  |-> 0,
   leakedCtx    |-> 0,
   leakedStream |-> 0,
   leakedProc   |-> 0,
   endDue       |-> "none",
   afterStop    |-> FALSE,
   stopOnend    |-> 0]

\* One call on the instance: where it is, what it tried and how often it
\* invoked each callback of the application.
\*   pc: "init" (at await _initWhisper), "gum" (at await getUserMedia),
\*       "done" (returned), "none" (no call);
\*   whisper: "pending", "ok", "failed";
\*   native, offline: "untried", "absent", "newThrew" (obtaining the
\*       recognizer threw), "startThrew" (its start() threw), "started";
\*   result: the transcript of the event passed to onresult, for the events
\*       the adapter builds itself.
NewCall ==
  [pc |-> "init", noop |-> FALSE, whisper |-> "pending",
   native |-> "untried", offline |-> "untried", ownMic |-> FALSE,
   onstart |-> 0, onerror |-> 0, onend |-> 0, onresult |-> 0,
   result |-> <<>>]

NoCall == [NewCall EXCEPT !.pc = "none"]

\* What a recognizer may do when the adapter obtains and starts it.
ShimOutcomes == {"newThrew", "startThrew", "started"}

Machine(th, w, c) == [this |-> th, world |-> w, call |-> c]

B2N(b) == IF b THEN 1 ELSE 0

\* this._usingFallback = true; this._fallbackShim = shim;
\* this._listening = true; this.onstart && this.onstart();
\* A recognizer that was started and is no longer referred to stays started.
\* The offline simulation is one object (window.enhancedOfflineVoice
\* .recognition); a native recognizer is a new one at each start().
AdoptShim(m, kind) ==
  LET same == m.this.fallbackShim = "offline" /\ kind = "offline"
  IN  [m EXCEPT !.this.usingFallback = TRUE,
                !.this.fallbackShim = kind,
                !.this.listening = TRUE,
                !.call.onstart = @ + 1,
                !.world.orphanShims =
                    @ + B2N(m.world.shimStarted /\ ~same),
                !.world.shimStarted = m.world.shimStarted /\ same]

\* if (NativeRecognition) { try { ... shim.start(); return; } catch {} }
NativeFallback(m, outcome) ==
  IF ~nativePresent THEN [m EXCEPT !.call.native = "absent"]
  ELSE IF outcome = "newThrew" THEN [m EXCEPT !.call.native = "newThrew"]
  ELSE IF outcome = "startThrew"
  THEN [AdoptShim(m, "native") EXCEPT !.call.native = "startThrew"]
  ELSE [AdoptShim(m, "native") EXCEPT !.call.native = "started",
                                      !.world.shimStarted = TRUE,
                                      !.call.pc = "done"]

\* if (OfflineCtor) { try { ... shim.start(); return; } catch {} }
OfflineFallback(m, outcome) ==
  IF ~offlinePresent THEN [m EXCEPT !.call.offline = "absent"]
  ELSE IF outcome = "newThrew" THEN [m EXCEPT !.call.offline = "newThrew"]
  ELSE IF outcome = "startThrew"
  THEN [AdoptShim(m, "offline") EXCEPT !.call.offline = "startThrew"]
  ELSE [AdoptShim(m, "offline") EXCEPT !.call.offline = "started",
                                       !.world.shimStarted = TRUE,
                                       !.call.pc = "done"]

\* catch (err) { this._listening = false; if (this.onerror) this.onerror(..) }
MicFailed(m) ==
  [m EXCEPT !.this.listening = FALSE,
            !.call.onerror = @ + 1,
            !.call.pc = "done"]

\* try { this._audioCtx = new AudioContext(...);
\*       this._mediaStream = await getUserMedia(...)
\* up to the await.  A context the field referred to is not closed.
MicOpen(m, ctxOk) ==
  IF ~ctxOk THEN MicFailed([m EXCEPT !.call.ownMic = TRUE])
  ELSE [m EXCEPT !.call.ownMic = TRUE,
                 !.call.pc = "gum",
                 !.world.leakedCtx = @ + B2N(m.this.audioCtx),
                 !.this.audioCtx = TRUE]

\* start() with the result of _initWhisper() not consulted: the fallback
\* recognizers are tried first whatever the primary engine answered.
AfterInitFallbackFirst(m, ok, nat, off, ctxOk) ==
  LET m0 == [m EXCEPT !.call.whisper = IF ok THEN "ok" ELSE "failed",
                      !.this.moduleLoaded = @ \/ ok]
      m1 == NativeFallback(m0, nat)
  IN  IF m1.call.pc = "done" THEN m1
      ELSE LET m2 == OfflineFallback(m1, off)
           IN  IF m2.call.pc = "done" THEN m2 ELSE MicOpen(m2, ctxOk)

\* start() from the return of await this._initWhisper() to its next await
\* or its return.
AfterInit(m, ok, nat, off, ctxOk) ==
  IF ok
  THEN MicOpen([m EXCEPT !.call.whisper = "ok",
                         !.this.moduleLoaded = TRUE], ctxOk)
  ELSE LET m1 == NativeFallback([m EXCEPT !.call.whisper = "failed"], nat)
       IN  IF m1.call.pc = "done" THEN m1
           ELSE LET m2 == OfflineFallback(m1, off)
                IN  IF m2.call.pc = "done" THEN m2 ELSE MicOpen(m2, ctxOk)

\* start() from the return of await getUserMedia(...) to its end.  Reading
\* this._audioCtx after stop() set it to null throws a TypeError, which the
\* catch handles as any other failure.
AfterGetUserMedia(m, granted, procOk) ==
  IF ~granted THEN MicFailed(m)
  ELSE LET m1 == [m EXCEPT !.world.leakedStream = @ + B2N(m.this.mediaStream),
                           !.this.mediaStream = TRUE]
       IN  IF ~m1.this.audioCtx \/ ~procOk THEN MicFailed(m1)
           ELSE [m1 EXCEPT !.world.leakedProc = @ + B2N(m.this.processor),
                           !.this.processor = TRUE,
                           !.this.listening = TRUE,
                           !.call.onstart = @ + 1,
                           !.call.pc = "done"]

\* this._fallbackShim.stop(): a started native recognizer that is stopped
\* returns what it has and then fires its end event, after stop() returned.
\* What the offline simulation does when stopped is application code outside
\* this repository; no event of it is assumed.
StopEndDue(m, shimStopThrows) ==
  IF /\ m.this.usingFallback
     /\ m.this.fallbackShim = "native"
     /\ m.world.shimStarted
     /\ ~shimStopThrows
  THEN "stop"
  ELSE m.world.endDue

\* stop() with the throw of this._fallbackShim.stop() not caught where it is
\* raised: the outer catch takes it and the releases are skipped.
StopEffectsShimThrowEscapes(m, shimStopThrows) ==
  LET shim == m.this.usingFallback /\ m.this.fallbackShim # "null"
  IN  IF shim /\ shimStopThrows
      THEN [m EXCEPT !.this.listening = FALSE,
                     !.call.onend = @ + 1,
                     !.world.afterStop = TRUE,
                     !.world.stopOnend = 1]
      ELSE [m EXCEPT !.world.shimStarted = @ /\ ~shim,
                     !.world.endDue = StopEndDue(m, shimStopThrows),
                     !.world.afterStop = TRUE,
                     !.world.stopOnend = 1,
                     !.this.processor = FALSE,
                     !.this.audioCtx = FALSE,
                     !.this.mediaStream = FALSE,
                     !.this.listening = FALSE,
                     !.call.onend = @ + 1]

\* stop(): the fallback recognizer is stopped (a throw of its stop() is
\* swallowed), the processor is disconnected, the context closed and the
\* tracks stopped, each field set to null; finally _listening = false and
\* onend is invoked.
StopEffects(m, shimStopThrows) ==
  LET shim == m.this.usingFallback /\ m.this.fallbackShim # "null"
  IN  [m EXCEPT !.world.shimStarted = @ /\ ~(shim /\ ~shimStopThrows),
                !.world.endDue = StopEndDue(m, shimStopThrows),
                !.world.afterStop = TRUE,
                !.world.stopOnend = 1,
                !.this.processor = FALSE,
                !.this.audioCtx = FALSE,
                !.this.mediaStream = FALSE,
                !.this.listening = FALSE,
                !.call.onend = @ + 1]

\* _initWhisper(): true at once when the module is loaded; else the loading
\* (scripts, model fetch) succeeds or fails.
InitWhisperResults(th) == IF th.moduleLoaded THEN {TRUE} ELSE BOOLEAN

\* The audio resources the fields refer to.
Held(th) == B2N(th.processor) + B2N(th.audioCtx) + B2N(th.mediaStream)

\* The latest step: the operation, the call it ran (its callbacks counted;
\* pc = "done" when the step returned from start()), whether a cleanup step
\* of stop() threw, and how many audio resources the step released.
Step(op, call, threw, released) ==
  [op |-> op, call |-> call, threw |-> threw, released |-> released]

RemoveAt(seq, i) == SubSeq(seq, 1, i - 1) \o SubSeq(seq, i + 1, Len(seq))

\* The suspended calls after call i ran to m.call.
Resumed(i, c) ==
  IF c.pc = "done" THEN RemoveAt(starts, i) ELSE [starts EXCEPT ![i] = c]

\* recognizer.start(), to its first await: if (this._listening) return;
StartCall ==
  /\ issued < MaxStarts
  /\ issued' = issued + 1
  /\ IF this.listening
     THEN /\ starts' = starts
          /\ last' = Step("start", [NewCall EXCEPT !.pc = "done",
                                                   !.noop = TRUE], FALSE, 0)
     ELSE /\ starts' = Append(starts, NewCall)
          /\ last' = Step("start", NoCall, FALSE, 0)
  /\ world' = [world EXCEPT !.afterStop = FALSE]
  /\ UNCHANGED <<this, nativePresent, offlinePresent>>
  /\ UNCHANGED <<cmdVars, recVars>>

\* A suspended start() resumes after _initWhisper.
InitDone(i) ==
  /\ starts[i].pc = "init"
  /\ \E ok \in InitWhisperResults(this), nat \in ShimOutcomes,
        off \in ShimOutcomes, ctxOk \in BOOLEAN :
       LET m == AfterInit(Machine(this, world, starts[i]), ok, nat, off, ctxOk)
       IN  /\ this' = m.this
           /\ world' = m.world
           /\ starts' = Resumed(i, m.call)
           /\ last' = Step("initDone",
                           IF m.call.pc = "done" THEN m.call ELSE NoCall,
                           FALSE, 0)
  /\ UNCHANGED <<issued, nativePresent, offlinePresent>>
  /\ UNCHANGED <<cmdVars, recVars>>

\* A suspended start() resumes after getUserMedia.
GumDone(i) ==
  /\ starts[i].pc = "gum"
  /\ \E granted \in BOOLEAN, procOk \in BOOLEAN :
       LET m == AfterGetUserMedia(Machine(this, world, starts[i]),
                                  granted, procOk)
       IN  /\ this' = m.this
           /\ world' = m.world
           /\ starts' = Resumed(i, m.call)
           /\ last' = Step("gumDone", m.call, FALSE, 0)
  /\ UNCHANGED <<issued, nativePresent, offlinePresent>>
  /\ UNCHANGED <<cmdVars, recVars>>

\* stop() as called under the name op; finally { ...; this.onend() }.
StopCalled(op) ==
  \E thr \in BOOLEAN :
    LET shim == this.usingFallback /\ this.fallbackShim # "null"
        m == StopEffects(Machine(this, world, NoCall), thr)
    IN  /\ this' = m.this
        /\ world' = m.world
        /\ last' = Step(op, m.call, shim /\ thr, Held(this) - Held(m.this))
        /\ UNCHANGED <<starts, issued, nativePresent, offlinePresent>>
        /\ UNCHANGED <<cmdVars, recVars>>

\* recognizer.stop()
Stop == StopCalled("stop")

\* recognizer.abort(): this.stop()
Abort == StopCalled("abort")

\* Lines the engine prints through Module.print: empty, white space only,
\* and text with capitals and surrounding white space.
PrintedLines == {<<>>, <<" ">>, <<" ", "X", "y", " ">>, <<"x", "y">>}

\* _handleWhisperOutput(line): the transcript passed to onresult, <<>> when
\* the line is dropped.
HandleWhisperOutput(line) ==
  LET trimmed == Trim(line)
  IN  IF trimmed = <<>> THEN <<>> ELSE ToLowerCase(trimmed)

\* Module.print(text) once the engine is loaded: _handleWhisperOutput(text).
\* Nothing in it consults _listening.
WhisperPrints ==
  /\ this.moduleLoaded
  /\ \E line \in PrintedLines :
       LET transcript_ == HandleWhisperOutput(line)
       IN  last' = Step("print",
                        [NoCall EXCEPT
                           !.onresult = IF transcript_ = <<>> THEN 0 ELSE 1,
                           !.result = transcript_],
                        FALSE, 0)
  /\ UNCHANGED <<this, world, starts, issued, nativePresent, offlinePresent>>
  /\ UNCHANGED <<cmdVars, recVars>>

\* shim.onresult = (e) => this.onresult && this.onresult(e): a started
\* recognizer, or a native one returning what it has after it was stopped,
\* delivers a result.
FallbackResult ==
  /\ world.shimStarted \/ world.endDue = "stop"
  /\ last' = Step("shimResult", [NoCall EXCEPT !.onresult = 1], FALSE, 0)
  /\ UNCHANGED <<this, world, starts, issued, nativePresent, offlinePresent>>
  /\ UNCHANGED <<cmdVars, recVars>>

\* shim.onerror = (e) => this.onerror && this.onerror(e): the started native
\* recognizer reports an error (not-allowed, audio-capture, ...) and ends.
\* No field of the adapter is written.
FallbackError ==
  /\ world.shimStarted
  /\ this.fallbackShim = "native"
  /\ world' = [world EXCEPT !.shimStarted = FALSE, !.endDue = "error"]
  /\ last' = Step("shimError", [NoCall EXCEPT !.onerror = 1], FALSE, 0)
  /\ UNCHANGED <<this, starts, issued, nativePresent, offlinePresent>>
  /\ UNCHANGED <<cmdVars, recVars>>

\* shim.onend = () => this.onend && this.onend(): the end event of a native
\* recognizer that was stopped or that reported an error.
FallbackEnd ==
  /\ world.endDue # "none"
  /\ world' = [world EXCEPT
                 !.endDue = "none",
                 !.stopOnend = @ + B2N(world.endDue = "stop")]
  /\ last' = Step("shimEnd", [NoCall EXCEPT !.onend = 1], FALSE, 0)
  /\ UNCHANGED <<this, starts, issued, nativePresent, offlinePresent>>
  /\ UNCHANGED <<cmdVars, recVars>>

InitAdapter ==
  /\ nativePresent \in BOOLEAN
  /\ offlinePresent \in BOOLEAN
  /\ this = NewInstance
  /\ world = NewWorld
  /\ starts = <<>>
  /\ issued = 0
  /\ last = Step("none", NoCall, FALSE, 0)

(***************************************************************************)
(* Recorder: startWhisperRecognition and stopWhisperRecognition.           *)
(*                                                                         *)
(* startWhisperRecognition is an async function, suspended at await        *)
(* initializeWhisper() (when whisper is not set) and at await              *)
(* getUserMedia(...); any other call may run while it is suspended.        *)
(***************************************************************************)
\* The globals after the script ran.
\*   whisper: the global whisper is set;
\*   mediaRecorder: "none" (undefined), or the state of the recorder the
\*       global refers to, "recording" or "inactive";
\*   orphans: recorders that are recording and that no variable refers to.
NewRecorder ==
  [whisper       |-> FALSE,
   isRecording   |-> FALSE,
   mediaRecorder |-> "none",
   orphans       |-> 0]

\* function stopWhisperRecognition()
StopWhisperRecognitionEffects(r) ==
  IF r.mediaRecorder # "none" /\ r.isRecording
  THEN [r EXCEPT !.mediaRecorder = "inactive", !.isRecording = FALSE]
  ELSE r

\* startWhisperRecognition from `if (isRecording)` to await getUserMedia or
\* to its return: the globals after it and whether it is suspended.
AfterInitializeWhisper(r) ==
  IF r.isRecording
  THEN [rec |-> StopWhisperRecognitionEffects(r), suspended |-> FALSE]
  ELSE [rec |-> r, suspended |-> TRUE]

\* What the try block may meet after await getUserMedia.
RecorderOutcomes == {"denied", "ctorThrew", "started"}

\* startWhisperRecognition from the return of await getUserMedia to its end.
\* The recorder the global referred to is not stopped when it is replaced.
AfterRecorderGetUserMedia(r, outcome) ==
  IF outcome = "started"
  THEN [r EXCEPT !.orphans = @ + B2N(r.mediaRecorder = "recording"),
                 !.mediaRecorder = "recording",
                 !.isRecording = TRUE]
  ELSE r

\* startWhisperRecognition(), to its first await.
StartWhisperRecognition ==
  /\ recIssued < MaxRecorderStarts
  /\ recIssued' = recIssued + 1
  /\ IF ~recorder.whisper
     THEN /\ recStarts' = Append(recStarts, "init")
          /\ recorder' = recorder
     ELSE LET a == AfterInitializeWhisper(recorder)
          IN  /\ recorder' = a.rec
              /\ recStarts' = IF a.suspended THEN Append(recStarts, "gum")
                                             ELSE recStarts
  /\ UNCHANGED <<cmdVars, adapterVars>>

\* A suspended startWhisperRecognition() resumes after initializeWhisper(),
\* which set whisper when the library loaded (whatever init() did then) and
\* left it unset when the library failed to load.
InitializeWhisperDone(i) ==
  /\ recStarts[i] = "init"
  /\ \E loaded \in BOOLEAN :
       LET a == AfterInitializeWhisper(
                  [recorder EXCEPT !.whisper = @ \/ loaded])
       IN  /\ recorder' = a.rec
           /\ recStarts' = IF a.suspended
                           THEN [recStarts EXCEPT ![i] = "gum"]
                           ELSE RemoveAt(recStarts, i)
  /\ UNCHANGED recIssued
  /\ UNCHANGED <<cmdVars, adapterVars>>

\* A suspended startWhisperRecognition() resumes after getUserMedia.
RecorderGumDone(i) ==
  /\ recStarts[i] = "gum"
  /\ \E outcome \in RecorderOutcomes :
       recorder' = AfterRecorderGetUserMedia(recorder, outcome)
  /\ recStarts' = RemoveAt(recStarts, i)
  /\ UNCHANGED recIssued
  /\ UNCHANGED <<cmdVars, adapterVars>>

\* stopWhisperRecognition()
StopWhisperRecognition ==
  /\ recorder' = StopWhisperRecognitionEffects(recorder)
  /\ UNCHANGED <<recStarts, recIssued>>
  /\ UNCHANGED <<cmdVars, adapterVars>>

\* initializeWhisper() as called when the script is loaded (line 190): the
\* library loads and whisper is set.
InitializeWhisperAtLoad ==
  /\ ~recorder.whisper
  /\ recorder' = [recorder EXCEPT !.whisper = TRUE]
  /\ UNCHANGED <<recStarts, recIssued>>
  /\ UNCHANGED <<cmdVars, adapterVars>>

InitRecorder ==
  /\ recorder = NewRecorder
  /\ recStarts = <<>>
  /\ recIssued = 0

(***************************************************************************)
(* Command Dispatcher: the specification.  The inputs of one call are      *)
(* drawn in the initial state; the call is one step.  The adapter is at    *)
(* rest.                                                                   *)
(***************************************************************************)
InitCmd ==
  /\ commands \in CommandTables
  /\ transcript \in Transcripts(commands)
  /\ addBtn \in BOOLEAN
  /\ entryType \in EntryTypes
  /\ complexTasks \in TaskLists
  /\ automationSequences \in AutomationLists
  /\ cmdPc = "ready"
  /\ calls = <<>>
  /\ spoken = <<>>
  /\ InitAdapter
  /\ ~nativePresent
  /\ ~offlinePresent
  /\ InitRecorder

ProcessCommandCall ==
  /\ cmdPc = "ready"
  /\ \E out \in {ProcessCommand(commands, transcript, addBtn, entryType,
                                 complexTasks, automationSequences)} :
       /\ calls' = out.calls
       /\ spoken' = out.spoken
  /\ cmdPc' = "done"
  /\ UNCHANGED <<commands, transcript, addBtn, entryType, complexTasks,
                 automationSequences>>
  /\ UNCHANGED <<adapterVars, recVars>>

NextCmd == ProcessCommandCall

vars == <<cmdVars, adapterVars, recVars>>

SpecCmd == InitCmd /\ [][NextCmd]_vars

(***************************************************************************)
(* Speech Source Adapter: the specification.  The dispatcher is at rest.   *)
(***************************************************************************)
Init ==
  /\ InitAdapter
  /\ InitRecorder
  /\ commands = DistinctCommands
  /\ transcript = <<>>
  /\ addBtn = TRUE
  /\ entryType = "reps"
  /\ complexTasks = <<>>
  /\ automationSequences = <<>>
  /\ cmdPc = "ready"
  /\ calls = <<>>
  /\ spoken = <<>>

\* Any suspended start() may be the next to resume.
ResumeAfterInit == \E i \in 1..Len(starts) : InitDone(i)

ResumeAfterGetUserMedia == \E i \in 1..Len(starts) : GumDone(i)

Next ==
  \/ StartCall
  \/ ResumeAfterInit
  \/ ResumeAfterGetUserMedia
  \/ Stop
  \/ Abort
  \/ WhisperPrints
  \/ FallbackResult
  \/ FallbackError
  \/ FallbackEnd

Spec == Init /\ [][Next]_vars

(***************************************************************************)
(* Recorder: the specification.  The dispatcher and the adapter are at     *)
(* rest.                                                                   *)
(***************************************************************************)
InitRec ==
  /\ Init
  /\ ~nativePresent
  /\ ~offlinePresent

ResumeAfterInitializeWhisper ==
  \E i \in 1..Len(recStarts) : InitializeWhisperDone(i)

ResumeAfterRecorderGetUserMedia ==
  \E i \in 1..Len(recStarts) : RecorderGumDone(i)

NextRec ==
  \/ InitializeWhisperAtLoad
  \/ StartWhisperRecognition
  \/ ResumeAfterInitializeWhisper
  \/ ResumeAfterRecorderGetUserMedia
  \/ StopWhisperRecognition

SpecRec == InitRec /\ [][NextRec]_vars

(***************************************************************************)
(* Command Dispatcher: the properties.                                     *)
(***************************************************************************)
\* The transcript as processCommand matches it.
Lowered == ToLowerCase(transcript)

ContainsTrigger(b) == Includes(Lowered, commands[b])

SomeBuiltinTrigger == \E b \in Builtins : ContainsTrigger(b)

\* The action functions of each built-in.
ActionsOf ==
  [startTimer    |-> {"startTimer"},
   stopTimer     |-> {"stopTimer"},
   resetTimer    |-> {"resetTimer"},
   startJog      |-> {"startJogging"},
   stopJog       |-> {"stopJogging"},
   logExercise   |-> {"handleSmartExerciseLogging"},
   startTimerFor |-> {"handleTimerForDuration"},
   addEntry      |-> {"addBtn.click"},
   setActualReps |-> {"actualValue.value=", "reps.value="},
   showProgress  |-> {"showProgressView"},
   showArchive   |-> {"showArchiveView"},
   openSettings  |-> {"showSettingsView"},
   goHome        |-> {"hideAllViews"}]

ArgumentBuiltins == {"logExercise", "startTimerFor", "setActualReps"}

CustomFns == {"executeComplexTask", "executeAutomationSequence"}

CallsOf(fns) == {i \in 1..Len(calls) : calls[i].fn \in fns}

SomeTaskMatches == FirstTask(Lowered, complexTasks) # 0

SomeAutomationMatches == FirstAutomation(Lowered, automationSequences) # 0

\* The transcript after the first occurrence of phrase.
RemainderAfterFirst(t, phrase) == Tail_(t, IndexOf(t, phrase) + Len(phrase))

\* C1: one call of processCommand invokes at most one action in total,
\* whatever the transcript and the two lists hold.
C1_AtMostOneAction == Len(calls) <= 1

\* C1, witness: a transcript with no built-in trigger that matches a complex
\* task and an automation sequence, dispatched to the task alone.
C1_Witness ==
  /\ cmdPc = "done"
  /\ ~SomeBuiltinTrigger
  /\ SomeTaskMatches
  /\ SomeAutomationMatches
  /\ Len(calls) = 1
  /\ calls[1].fn = "executeComplexTask"

\* C2: when an argument-taking built-in is selected, the argument passed is
\* the whole remainder of the transcript after the first occurrence of the
\* trigger phrase, trimmed (also when the phrase occurs again later).
C2_ArgIsTrimmedRemainder ==
  cmdPc = "done" =>
    \A b \in ArgumentBuiltins :
      \A i \in CallsOf(ActionsOf[b]) :
        calls[i].arg = Trim(RemainderAfterFirst(Lowered, commands[b]))

\* C3: every call of processCommand ends with an action executed or with
\* the not-recognized feedback.
C3_ActionOrNotRecognized ==
  cmdPc = "done" =>
    \/ Len(calls) >= 1
    \/ \E i \in 1..Len(spoken) : spoken[i] = NotRecognized

\* C4: a transcript that contains the trigger of exactly one built-in invokes
\* that built-in's action exactly once.
C4_ExactlyOnce ==
  cmdPc = "done" =>
    \A b \in Builtins :
      (ContainsTrigger(b) /\ \A o \in Builtins \ {b} : ~ContainsTrigger(o))
        => Cardinality(CallsOf(ActionsOf[b])) = 1

IsSubstring(t, phrase) ==
  \E i \in 0..Len(t) :
    /\ i + Len(phrase) <= Len(t)
    /\ SubSeq(t, i + 1, i + Len(phrase)) = phrase

\* The positions in the table order of the built-ins whose trigger phrase is
\* a substring of the lowercased transcript.
ContainedAt ==
  LET t == Lowered
  IN  {i \in 1..Len(BuiltinOrder) : IsSubstring(t, commands[BuiltinOrder[i]])}

\* The earliest of them.
Earliest ==
  LET contained == ContainedAt
  IN  CHOOSE i \in contained : \A j \in contained : i <= j

\* The built-ins whose action is silently skipped: addEntry without the
\* button, setActualReps with an entry type that has no field for it.
SkippedSilently(b) ==
  \/ b = "addEntry" /\ ~addBtn
  \/ b = "setActualReps" /\ entryType \notin {"reps", "semi"}

\* C15: the built-in processCommand selects is the earliest in the table
\* order whose trigger phrase is a substring of the lowercased transcript: no
\* action of another built-in is invoked, and the action of that one is
\* invoked (once) unless its branch skips it silently.
C15_FirstMatchInTableOrder ==
  (cmdPc = "done" /\ ContainedAt # {}) =>
    LET b == BuiltinOrder[Earliest]
        fns == ActionsOf[b]
    IN  /\ \A i \in 1..Len(calls) : calls[i].fn \in fns
        /\ ~SkippedSilently(b) => Len(calls) = 1

\* C15, witness: a transcript that contains the triggers of two built-ins,
\* the earlier one inside a longer word, dispatched to the earlier one.
C15_Witness ==
  /\ cmdPc = "done"
  /\ Cardinality(ContainedAt) >= 2
  /\ Len(Lowered) > Len(commands[BuiltinOrder[Earliest]])
  /\ Len(calls) = 1
  /\ calls[1].fn \in ActionsOf[BuiltinOrder[Earliest]]

\* An entry matches when the transcript contains one of the phrases of its
\* list, or else its command, or else its fallback name, each in lower case.
EntryMatches(t, entry, fallback) ==
  IF entry.commands # <<>>
  THEN \E i \in 1..Len(entry.commands) :
         IsSubstring(t, ToLowerCase(entry.commands[i]))
  ELSE IF entry.command # <<>>
  THEN IsSubstring(t, ToLowerCase(entry.command))
  ELSE IsSubstring(t, ToLowerCase(fallback))

\* The first entry of each list that matches so, 0 when none does.
FirstMatchingTask ==
  LET hits == {i \in 1..Len(complexTasks) :
                 EntryMatches(Lowered, complexTasks[i],
                              complexTasks[i].primaryCommand)}
  IN  IF hits = {} THEN 0 ELSE CHOOSE i \in hits : \A j \in hits : i <= j

FirstMatchingAutomation ==
  LET hits == {i \in 1..Len(automationSequences) :
                 EntryMatches(Lowered, automationSequences[i],
                              automationSequences[i].name)}
  IN  IF hits = {} THEN 0 ELSE CHOOSE i \in hits : \A j \in hits : i <= j

\* C16: when no built-in trigger is contained, the entry executed is the
\* first complex task in list order that matches (by one of its phrases, or
\* else its command, or else its primaryCommand, in lower case), or with no
\* such task the first automation sequence that matches; nothing else is
\* executed.
C16_FirstMatchingEntry ==
  (cmdPc = "done" /\ ContainedAt = {}) =>
    IF FirstMatchingTask # 0
    THEN calls = <<Call("executeComplexTask", NoArg, FirstMatchingTask)>>
    ELSE IF FirstMatchingAutomation # 0
    THEN calls = <<Call("executeAutomationSequence", NoArg,
                        FirstMatchingAutomation)>>
    ELSE calls = <<>>

(***************************************************************************)
(* Speech Source Adapter: the properties.                                  *)
(***************************************************************************)
FailedToStart == {"absent", "newThrew", "startThrew"}

\* Recognizers that are started, referred to by the instance or not.
StartedShims == B2N(world.shimStarted) + world.orphanShims

\* Microphone streams acquired whose tracks are not stopped.
OpenStreams == B2N(this.mediaStream) + world.leakedStream

\* Audio resources acquired and not released.
Unreleased ==
  Held(this) + world.leakedCtx + world.leakedStream + world.leakedProc

\* C7: when the primary engine fails to initialize, the native recognizer is
\* absent or throws and the offline simulation is absent or throws, start()
\* reports through onerror and ends with listening = false.
C7_AllFailReportsError ==
  LET c == last.call
  IN  (/\ c.pc = "done"
       /\ c.whisper = "failed"
       /\ c.native \in FailedToStart
       /\ c.offline \in FailedToStart)
        => (c.onerror >= 1 /\ ~this.listening)

\* C8: at most one underlying strategy is active in every reachable state:
\* no started fallback recognizer together with the adapter's own microphone
\* capture, no two started fallback recognizers, and onstart fired at most
\* once by each start() call.
C8_OneStrategyActive ==
  /\ ~(StartedShims > 0 /\ OpenStreams > 0)
  /\ StartedShims <= 1
  /\ last.call.onstart <= 1
  /\ \A i \in 1..Len(starts) : starts[i].onstart <= 1

\* C9: every stop() and abort(), from any state, invokes onend, leaves
\* listening = false and leaves the processor, audio context and media
\* stream fields null with what they referred to released; a cleanup step
\* that throws prevents neither onend nor the reset of listening.
C9_StopReleases ==
  [][last'.op \in {"stop", "abort"} =>
       /\ last'.call.onend = 1
       /\ ~this'.listening
       /\ ~this'.processor /\ ~this'.audioCtx /\ ~this'.mediaStream
       /\ last'.released = Held(this)
       /\ world'.leakedCtx = world.leakedCtx
       /\ world'.leakedStream = world.leakedStream
       /\ world'.leakedProc = world.leakedProc]_vars

\* C9, witness: stop() on an instance that captures the microphone and
\* refers to a fallback recognizer whose stop() throws: the three audio
\* resources are released and onend is invoked.
C9_Witness ==
  /\ last.op = "stop"
  /\ last.threw
  /\ last.released = 3
  /\ last.call.onend = 1
  /\ ~this.listening
  /\ Held(this) = 0

\* C10: once no start() is suspended and the adapter is not listening, every
\* stream, audio context and processor the instance acquired is released.
C10_NoAccumulation ==
  (starts = <<>> /\ ~this.listening) => Unreleased = 0

\* C11: one session at a time: a start() made while an earlier start() is
\* suspended in its initialization (or while listening) is a no-op, so no two
\* start() calls are in progress together and no two recognizers are started.
C11_OneSessionAtATime ==
  /\ Len(starts) <= 1
  /\ StartedShims <= 1

\* C12: when start() fails after it acquired part of its audio resources,
\* the instance holds no audio context, media stream or processor at the
\* moment onerror is reported, and no later start() overwrites an unreleased
\* one.
C12_ErrorExitReleases ==
  /\ (last.call.pc = "done" /\ last.call.ownMic /\ last.call.onerror >= 1)
       => Held(this) = 0
  /\ world.leakedCtx = 0 /\ world.leakedStream = 0 /\ world.leakedProc = 0

\* The recognizer was obtained or started in this call.
Tried(attempt) == attempt \in ShimOutcomes

\* The order in which one start() call went through the chain.
ChainOrder(c) ==
  /\ (c.native # "untried" \/ c.offline # "untried" \/ c.ownMic)
       => c.whisper # "pending"
  /\ Tried(c.native) => c.whisper = "failed"
  /\ Tried(c.offline) => c.whisper = "failed" /\ c.native \in FailedToStart

\* The latest step is a start() in which a strategy of the chain started.
StrategyStarted ==
  \/ last.call.native = "started"
  \/ last.call.offline = "started"
  \/ last.op = "gumDone" /\ this.listening

\* C14: in every start() call the primary engine initialization has
\* answered before any other strategy is tried, the native recognizer is
\* tried only after the primary initialization failed, the offline
\* simulation only after that and after the native recognizer was absent or
\* threw; a start() in which some strategy started has not invoked onerror.
C14_ChainOrder ==
  /\ ChainOrder(last.call)
  /\ \A i \in 1..Len(starts) : ChainOrder(starts[i])
  /\ StrategyStarted => last.call.onerror = 0

C14_Witness ==
  /\ last.call.whisper = "failed"
  /\ last.call.native = "startThrew"
  /\ last.call.offline = "started"
  /\ last.call.onerror = 0

\* C13: once onerror has been delivered for a microphone or device failure,
\* raised on the adapter's own microphone path or forwarded from the active
\* recognizer, the adapter is not listening, so that the next start() is not
\* a no-op.
C13_ErrorEndsSession ==
  last.call.onerror >= 1 => ~this.listening

\* C18: a start() that completes after stop() or abort() returned, with no
\* start() called since and none pending any more, leaves the adapter not
\* listening, without microphone stream and audio context, and with no
\* fallback recognizer started.
C18_StopWinsOverPendingStart ==
  (/\ last.op \in {"initDone", "gumDone"}
   /\ last.call.pc = "done"
   /\ world.afterStop
   /\ starts = <<>>)
    => /\ ~this.listening
       /\ ~this.mediaStream
       /\ ~this.audioCtx
       /\ StartedShims = 0

\* C19: each stop() causes exactly one onend notification: the one stop()
\* makes itself, and none forwarded from the recognizer it stopped.
C19_OneOnendPerStop ==
  /\ last.op \in {"stop", "abort"} => last.call.onend = 1
  /\ world.stopOnend <= 1

\* C20: between the return of stop() or abort() and the next start(), with
\* the adapter not listening, no line the engine prints and no result of a
\* recognizer reaches onresult; and a transcript _handleWhisperOutput
\* delivers is not empty, is trimmed and is in lower case.
C20_ResultsOnlyWhileListening ==
  /\ (/\ last.op \in {"print", "shimResult"}
      /\ world.afterStop
      /\ ~this.listening)
       => last.call.onresult = 0
  /\ (last.op = "print" /\ last.call.onresult >= 1)
       => /\ last.call.result # <<>>
          /\ Trim(last.call.result) = last.call.result
          /\ ToLowerCase(last.call.result) = last.call.result

(***************************************************************************)
(* Recorder: the properties.                                               *)
(***************************************************************************)
\* Recorders that are recording, referred to by mediaRecorder or not.
Recording == B2N(recorder.mediaRecorder = "recording") + recorder.orphans

\* C17: at most one MediaRecorder is recording at any time, and isRecording
\* is true exactly while one is recording (so that stopWhisperRecognition
\* stops every recorder that was started).
C17_OneRecorder ==
  /\ Recording <= 1
  /\ recorder.isRecording <=> Recording = 1
=============================================================================
